---- MODULE Spec2Model ----
(***************************************************************************)
(* Session record store of the judo training log (src/app.py): one remote  *)
(* worksheet holding a header row and one row per session, a memoised      *)
(* load (st.cache_data, ttl 10 s), a full-rewrite save, and a single-row   *)
(* update addressed by id.                                                 *)
(*                                                                         *)
(* Spec      one client, one script run (view, create, duplicate, edit)    *)
(*           at a time, starting from a table without worksheet.           *)
(* SpecFail  Spec, with remote calls of save_df and of the row update that *)
(*           may fail and abort the script run.                            *)
(* SpecProc  two clients, each served by a server process of its own (so   *)
(*           each with its own st.cache_data memory), one script run at a  *)
(*           time, starting from a table without worksheet.                *)
(* SpecCalls one call of a helper (to_season, next_id, _find_row_by_id,     *)
(*           _a1_col_letters, or load_df followed by save_df of the frame  *)
(*           loaded) on arguments drawn at the start.                      *)
(* SpecConc  two clients, one script run each (create or edit), on a sheet *)
(*           of three sessions; the remote calls of the two runs           *)
(*           interleave.                                                   *)
(***************************************************************************)
EXTENDS Integers, Sequences, FiniteSets, TLC

VARIABLES
    wsExists,   \* the spreadsheet holds the worksheet WORKSHEET
    sheet,      \* the worksheet's rows, top to bottom; a row is 15 cell texts
    cache,      \* the memoised result of load_df: [set, df, age]
                \* (in SpecProc: one such entry per server process)
    df,         \* per client: the frame its script holds (result of its last load_df())
    ui,         \* per client: the message its last script run displayed
    ev,         \* per client: the widget values its last script run handled
    pc,         \* per client: where its script run stands ("idle" between runs)
    loc,        \* per client: the locals of the handler its script run is in
    sheet0      \* the worksheet's rows when the overlapping runs started

vars == <<wsExists, sheet, cache, df, ui, ev, pc, loc, sheet0>>

\* What the stepwise runs use and the one-run-at-a-time client leaves alone.
stepVars == <<pc, loc, sheet0>>

(***************************** bounds **************************************)
\* Creates and duplicates are taken while the frame holds fewer rows.
MaxRows == 3

\* The seconds one Tick lets pass.
TickStep == 5

(*************************** constants *************************************)
COLUMNS ==
    << "id", "date", "saison", "public", "objectif", "tags", "duree_min",
       "echauffement", "corps", "retour", "materiel", "bilan", "effectif",
       "rpe", "auteur" >>

ColNames == {COLUMNS[k] : k \in 1..Len(COLUMNS)}

\* @st.cache_data(ttl=10)
CacheTTL == 10

\* df.sort_values("date", ascending=False).head(30)
DupHead == 30

Clients == {1, 2}

(***************************** values **************************************)
\* Cells of a frame: int, str, Timestamp, NaT, NaN.  Each kind is a record
\* with its own field, so that two cells of different kinds differ.
Num(n) == [int |-> n]
Str(s) == [str |-> s]
Ts(d)  == [ts |-> d]
NaT    == [nat |-> TRUE]
NaN    == [nan |-> TRUE]

IsInt(v) == "int" \in DOMAIN v
IsStr(v) == "str" \in DOMAIN v
IsTs(v)  == "ts" \in DOMAIN v
IsNull(v) == "nat" \in DOMAIN v \/ "nan" \in DOMAIN v

Date(y, m, d) == [year |-> y, month |-> m, day |-> d]

SetMax(S) == CHOOSE x \in S : \A y \in S : y <= x

(************************* Season Calculator *******************************)
\* f"{d.year-1}-{d.year}" if d.month < 7 else f"{d.year}-{d.year+1}"
to_season_july(d) ==
    IF d.month <= 7
    THEN ToString(d.year - 1) \o "-" \o ToString(d.year)
    ELSE ToString(d.year) \o "-" \o ToString(d.year + 1)
to_season(d) ==
    IF d.month < 7
    THEN ToString(d.year - 1) \o "-" \o ToString(d.year)
    ELSE ToString(d.year) \o "-" \o ToString(d.year + 1)

(*************************** text conversions ******************************)
Pad2(n) == IF n < 10 THEN "0" \o ToString(n) ELSE ToString(n)

\* strftime("%Y-%m-%d")
Strftime(d) == ToString(d.year) \o "-" \o Pad2(d.month) \o "-" \o Pad2(d.day)

IsLeap(y) == (y % 4 = 0 /\ y % 100 # 0) \/ y % 400 = 0

DaysIn(y, m) ==
    IF m = 2 THEN (IF IsLeap(y) THEN 29 ELSE 28)
    ELSE IF m \in {4, 6, 9, 11} THEN 30 ELSE 31

\* The calendar dates whose text the model parses back.
Calendar ==
    {dt \in {Date(y, m, d) : y \in 2023..2025, m \in 1..12, d \in 1..31} :
        dt.day <= DaysIn(dt.year, dt.month)}

DateTexts == {Strftime(d) : d \in Calendar}

\* Parsing is the inverse of formatting, found by search over the calendar
\* (merged with the empty function, which tabulates it once).
DateOfText == [s \in DateTexts |-> CHOOSE d \in Calendar : Strftime(d) = s] @@ << >>

\* pd.to_datetime(cell, errors="coerce")
to_datetime(v) ==
    IF IsTs(v) THEN v
    ELSE IF IsStr(v) /\ v.str \in DateTexts THEN Ts(DateOfText[v.str])
    ELSE NaT

\* The integers whose text get_all_records turns back into a number.
NumRange == 0..200

NumTexts == {ToString(n) : n \in NumRange}

IntOfText == [s \in NumTexts |-> CHOOSE n \in NumRange : ToString(n) = s] @@ << >>

\* gspread numericise: a cell text that reads as a number becomes the number.
numericise(t) == IF t \in NumTexts THEN Num(IntOfText[t]) ELSE Str(t)

\* str(value) of a frame or form value
AsStr(v) == IF IsInt(v) THEN ToString(v.int) ELSE v.str

\* fillna("")
FillNa(v) == IF IsNull(v) THEN Str("") ELSE v

\* .dt.strftime("%Y-%m-%d") on a datetime column: NaT gives NaN
StrftimeCell(v) == IF IsTs(v) THEN Str(Strftime(v.ts)) ELSE NaN

\* "; ".join(obj)
RECURSIVE Join(_)
Join(xs) ==
    IF Len(xs) = 0 THEN ""
    ELSE IF Len(xs) = 1 THEN xs[1]
    ELSE xs[1] \o "; " \o Join(Tail(xs))

(************************ Remote Table Gateway *****************************)
BlankRow == [k \in 1..Len(COLUMNS) |-> ""]

\* ws.clear()
WsClear(s) == << >>

\* ws.append_row(values): the row goes below the last row holding data
WsAppendRow(s, r) == Append(s, r)

\* ws.append_rows(rows)
WsAppendRows(s, rs) == s \o rs

\* ws.update(f"A{i}:{end_col}{i}", [values]): overwrites cells A..end_col of
\* row i, and only of row i; rows between the data and row i stay blank
WsUpdateRow(old, ncols, r) == [k \in 1..Len(old) |-> IF k <= ncols THEN r[k] ELSE old[k]]

WsUpdateInsert(s, i, ncols, r) ==
    [j \in 1..(IF i <= Len(s) THEN Len(s) + 1 ELSE i) |->
        IF j = i THEN r
        ELSE IF j < i THEN (IF j <= Len(s) THEN s[j] ELSE BlankRow)
        ELSE s[j - 1]]

WsUpdate(s, i, ncols, r) ==
    [j \in 1..(IF i <= Len(s) THEN Len(s) ELSE i) |->
        IF j = i THEN WsUpdateRow(IF j <= Len(s) THEN s[j] ELSE BlankRow, ncols, r)
        ELSE IF j <= Len(s) THEN s[j] ELSE BlankRow]

\* ws.col_values(1)
ColValues(s) == [i \in 1..Len(s) |-> s[i][1]]

None == 0

\* _find_row_by_id: the first row after the header whose id cell reads as
\* session_id; the id texts of the model hold no blanks, so strip() keeps them.
FindRowFromZero(s, session_id) ==
    LET col == ColValues(s)
        hits == {i \in 0..(Len(col) - 1) : i # 1 /\ col[i + 1] = ToString(session_id)}
    IN IF hits = {} THEN None ELSE CHOOSE i \in hits : \A j \in hits : i <= j
FindRowOrNext(s, session_id) ==
    LET col == ColValues(s)
        hits == {i \in 1..Len(col) : i # 1 /\ col[i] = ToString(session_id)}
    IN IF hits = {} THEN Len(s) + 1 ELSE CHOOSE i \in hits : \A j \in hits : i <= j
FindRowWithHeader(s, session_id) ==
    LET col == ColValues(s)
        hits == {i \in 1..Len(col) : col[i] = ToString(session_id)}
    IN IF hits = {} THEN None ELSE CHOOSE i \in hits : \A j \in hits : i <= j
_find_row_by_id(s, session_id) ==
    LET col == ColValues(s)
        hits == {i \in 1..Len(col) : i # 1 /\ col[i] = ToString(session_id)}
    IN IF hits = {} THEN None ELSE CHOOSE i \in hits : \A j \in hits : i <= j

\* _a1_col_letters
Letters == << "A", "B", "C", "D", "E", "F", "G", "H", "I", "J", "K", "L", "M",
              "N", "O", "P", "Q", "R", "S", "T", "U", "V", "W", "X", "Y", "Z" >>

RECURSIVE A1Loop(_, _)
A1Loop(n, s) ==
    IF n > 0 THEN A1Loop((n - 1) \div 26, Letters[((n - 1) % 26) + 1] \o s) ELSE s

RECURSIVE A1LoopPlain(_, _)
A1LoopPlain(n, s) ==
    IF n > 0 THEN A1LoopPlain(n \div 26, Letters[(n % 26) + 1] \o s) ELSE s

a1_plain_base26(n) == A1LoopPlain(n, "")
_a1_col_letters(n) == A1Loop(n, "")

\* The column an A1 column name addresses, as the remote table reads it.
ColumnNames == [n \in 1..(2 * 26) |-> _a1_col_letters(n)] @@ << >>

ColumnOf(letters) == CHOOSE n \in DOMAIN ColumnNames : ColumnNames[n] = letters

\* ws.get_all_records(): row 1 gives the keys, every later row one record,
\* kept here as that row's numericised cells beside the keys.
get_all_records(s) ==
    IF Len(s) <= 1 THEN << >>
    ELSE [i \in 1..(Len(s) - 1) |->
            [k \in 1..Len(s[i + 1]) |-> numericise(s[i + 1][k])]]

(***************************** Session Store *******************************)
\* pd.DataFrame(rows, columns=COLUMNS): a column the keys lack is NaN
DataFrame(keys, recs) ==
    LET pos == [c \in ColNames |-> {k \in 1..Len(keys) : keys[k] = c}] @@ << >>
    IN [i \in 1..Len(recs) |->
            [c \in ColNames |->
                IF pos[c] = {} THEN NaN ELSE recs[i][SetMax(pos[c])]]]

\* load_df, lines 77-81: the frame read from a worksheet with rows s
ReadFrame(s) ==
    LET f == DataFrame(IF Len(s) = 0 THEN << >> ELSE s[1], get_all_records(s))
    IN [i \in 1..Len(f) |-> [f[i] EXCEPT !["date"] = to_datetime(@)]]

\* save_df, lines 89-94: the rows written for frame f
SaveRowsReversed(f) ==
    [i \in 1..Len(f) |->
        [k \in 1..Len(COLUMNS) |->
            LET c == COLUMNS[k]
                r == f[Len(f) + 1 - i]
                v == IF c = "date" THEN StrftimeCell(to_datetime(r[c])) ELSE r[c]
            IN AsStr(FillNa(v))]]
SaveRowsLast(f) ==
    [i \in 1..(IF Len(f) = 0 THEN 0 ELSE 1) |->
        [k \in 1..Len(COLUMNS) |->
            LET c == COLUMNS[k]
                v == IF c = "date" THEN StrftimeCell(to_datetime(f[Len(f)][c])) ELSE f[Len(f)][c]
            IN AsStr(FillNa(v))]]
SaveRows(f) ==
    [i \in 1..Len(f) |->
        [k \in 1..Len(COLUMNS) |->
            LET c == COLUMNS[k]
                v == IF c = "date" THEN StrftimeCell(to_datetime(f[i][c])) ELSE f[i][c]
            IN AsStr(FillNa(v))]]

\* save_df, lines 87-94: clear, header, rows
SaveSheet(s, f) == WsAppendRows(WsAppendRow(WsClear(s), COLUMNS), SaveRows(f))

\* save_df aborted by a failing remote call after n of its three writes
\* (clear, header, rows) went through
SavePartial(s, f, n) ==
    IF n = 0 THEN s
    ELSE IF n = 1 THEN WsClear(s)
    ELSE WsAppendRow(WsClear(s), COLUMNS)

NoCache == [set |-> FALSE, df |-> << >>, age |-> 0]

CacheValid(ch) == ch.set /\ ch.age < CacheTTL

\* load_df.clear()
CacheClearKeep(ch) == ch
CacheClear(ch) == NoCache

\* load_df, lines 72-76: the worksheet is created with its header when absent
EnsureSheetAlways(ex, s) == WsAppendRow(IF ex THEN s ELSE << >>, COLUMNS)
EnsureSheetNoHeader(ex, s) == IF ex THEN s ELSE << >>
EnsureSheet(ex, s) == IF ex THEN s ELSE WsAppendRow(<< >>, COLUMNS)

\* load_df under @st.cache_data: the cache after the call, whose entry is the
\* value the call returns
LoadCache(ch, ex, s) ==
    IF CacheValid(ch) THEN ch
    ELSE [set |-> TRUE, df |-> ReadFrame(EnsureSheet(ex, s)), age |-> 0]

LoadSheet(ch, ex, s) == IF CacheValid(ch) THEN s ELSE EnsureSheet(ex, s)

\* next_id
next_id_nosucc(f) ==
    IF Len(f) # 0 THEN SetMax({f[i]["id"].int : i \in 1..Len(f)}) ELSE 1
next_id_last(f) == IF Len(f) # 0 THEN f[Len(f)]["id"].int + 1 ELSE 1
next_id(f) ==
    IF Len(f) # 0 THEN SetMax({f[i]["id"].int : i \in 1..Len(f)}) + 1 ELSE 1

\* next_id raises unless every id of the frame is a number
IdsNumeric(f) == \A i \in 1..Len(f) : IsInt(f[i]["id"])

(******************************* inputs ************************************)
Dates == {Date(2024, 6, 30), Date(2024, 7, 1)}

\* Two fillings of the form, differing in every field.
Forms ==
    { [public |-> "Poussins", obj |-> <<"Ukemi", "Randori">>, tags |-> "ukemi, jeux",
       duree |-> 60, ech |-> "course", corps |-> "uchi-komi", retour |-> "etirements",
       materiel |-> "tapis", bilan |-> "bien", effectif |-> 15, rpe |-> 5,
       auteur |-> ""],
      [public |-> "Adultes", obj |-> <<"Ne-waza">>, tags |-> "osaekomi",
       duree |-> 90, ech |-> "jeux", corps |-> "randori sol", retour |-> "retour calme",
       materiel |-> "ceintures", bilan |-> "a revoir", effectif |-> 8, rpe |-> 7,
       auteur |-> "coach"] }

\* form_seance submit, lines 202-218
NewRow(id, d, f) ==
    [id |-> Num(id), date |-> Str(Strftime(d)), saison |-> Str(to_season(d)),
     public |-> Str(f.public), objectif |-> Str(Join(f.obj)), tags |-> Str(f.tags),
     duree_min |-> Num(f.duree), echauffement |-> Str(f.ech), corps |-> Str(f.corps),
     retour |-> Str(f.retour), materiel |-> Str(f.materiel), bilan |-> Str(f.bilan),
     effectif |-> Num(f.effectif), rpe |-> Num(f.rpe), auteur |-> Str(f.auteur)]

\* duplicate, lines 240-243
DupRow(base, id, today) ==
    [base EXCEPT !["id"] = Num(id), !["date"] = Str(Strftime(today)),
                 !["saison"] = Str(to_season(today))]

\* lines 228-238: the rows offered for duplication, the 30 latest by date
DateKey(v) == IF IsTs(v) THEN (v.ts.year * 10000) + (v.ts.month * 100) + v.ts.day ELSE 0 - 1

Choices(f) ==
    {i \in 1..Len(f) :
        Cardinality({j \in 1..Len(f) :
            \/ DateKey(f[j]["date"]) > DateKey(f[i]["date"])
            \/ (DateKey(f[j]["date"]) = DateKey(f[i]["date"]) /\ j < i)}) < DupHead}

\* edit_form submit, lines 372-389 and 398: the values written, in COLUMNS order
EditSaisonStale(row, new_date) == row["saison"].str
EditSaison(row, new_date) == to_season(new_date)

Updated(selected_id, row, new_date, f) ==
    [id |-> Num(selected_id), date |-> Str(Strftime(new_date)),
     saison |-> Str(EditSaison(row, new_date)),
     public |-> Str(f.public), objectif |-> Str(Join(f.obj)), tags |-> Str(f.tags),
     duree_min |-> Num(f.duree), echauffement |-> Str(f.ech), corps |-> Str(f.corps),
     retour |-> Str(f.retour), materiel |-> Str(f.materiel), bilan |-> Str(f.bilan),
     effectif |-> Num(f.effectif), rpe |-> Num(f.rpe), auteur |-> Str(f.auteur)]

UpdatedValues(u) == [k \in 1..Len(COLUMNS) |-> AsStr(u[COLUMNS[k]])]

(****************** one client, one script run at a time *******************)
Init ==
    /\ wsExists = FALSE
    /\ sheet = << >>
    /\ cache = NoCache
    /\ df = [c \in Clients |-> << >>]
    /\ ui = [c \in Clients |-> ""]
    /\ ev = [c \in Clients |-> [op |-> "none"]]
    /\ pc = [c \in Clients |-> "idle"]
    /\ loc = [c \in Clients |-> << >>]
    /\ sheet0 = << >>

\* TickStep seconds pass; the entry expires when its age reaches the ttl.
Tick ==
    /\ CacheValid(cache)
    /\ cache' = [cache EXCEPT !.age = IF @ + TickStep < CacheTTL THEN @ + TickStep ELSE CacheTTL]
    /\ UNCHANGED <<wsExists, sheet, df, ui, ev, stepVars>>

\* A script run without a submitted form: lines 160, 226, 250.
View(c) ==
    LET ch0 == LoadCache(cache, wsExists, sheet)
    IN /\ pc[c] = "idle"
       /\ df' = [df EXCEPT ![c] = ch0.df]
       /\ cache' = ch0
       /\ sheet' = LoadSheet(cache, wsExists, sheet)
       /\ wsExists' = TRUE
       /\ ui' = [ui EXCEPT ![c] = ""]
       /\ ev' = [ev EXCEPT ![c] = [op |-> "view"]]
       /\ UNCHANGED stepVars

\* form_seance submitted: line 160, lines 201-221, then lines 226 and 250.
Create(c, d, f) ==
    LET ch0 == LoadCache(cache, wsExists, sheet)
        s0  == LoadSheet(cache, wsExists, sheet)
        df0 == ch0.df
        df1 == Append(df0, NewRow(next_id(df0), d, f))
        s1  == SaveSheet(s0, df1)
        ch1 == LoadCache(CacheClear(ch0), TRUE, s1)
    IN /\ pc[c] = "idle"
       /\ Len(df0) < MaxRows
       /\ IdsNumeric(df0)
       /\ sheet' = s1
       /\ wsExists' = TRUE
       /\ df' = [df EXCEPT ![c] = ch1.df]
       /\ cache' = ch1
       /\ ui' = [ui EXCEPT ![c] = "created"]
       /\ ev' = [ev EXCEPT ![c] = [op |-> "create", date |-> d, form |-> f]]
       /\ UNCHANGED stepVars

\* dup_btn pressed: lines 160 and 226, lines 227-246, then line 250.
Duplicate(c, idx, today) ==
    LET ch0 == LoadCache(cache, wsExists, sheet)
        s0  == LoadSheet(cache, wsExists, sheet)
        df0 == ch0.df
        df1 == Append(df0, DupRow(df0[idx], next_id(df0), today))
        s1  == SaveSheet(s0, df1)
        ch1 == LoadCache(CacheClear(ch0), TRUE, s1)
    IN /\ pc[c] = "idle"
       /\ Len(df0) # 0
       /\ idx \in Choices(df0)
       /\ Len(df0) < MaxRows
       /\ IdsNumeric(df0)
       /\ sheet' = s1
       /\ wsExists' = TRUE
       /\ df' = [df EXCEPT ![c] = ch1.df]
       /\ cache' = ch1
       /\ ui' = [ui EXCEPT ![c] = "duplicated"]
       /\ ev' = [ev EXCEPT ![c] = [op |-> "duplicate", idx |-> idx, date |-> today]]
       /\ UNCHANGED stepVars

\* The ids the edit selectbox offers (line 299), and the frame row of one (line 304).
EditIds(f) == {f[i]["id"].int : i \in {j \in 1..Len(f) : IsInt(f[j]["id"])}}

EditRow(f, sid) ==
    f[CHOOSE i \in 1..Len(f) :
        /\ f[i]["id"] = Num(sid)
        /\ \A j \in 1..(i - 1) : f[j]["id"] # Num(sid)]

\* edit_form submitted: lines 160-250, lines 371-401, and the rerun's loads.
Edit(c, sid, d, f) ==
    LET ch0 == LoadCache(cache, wsExists, sheet)
        s0  == LoadSheet(cache, wsExists, sheet)
        df0 == ch0.df
        u   == Updated(sid, EditRow(df0, sid), d, f)
        row_idx == _find_row_by_id(s0, sid)
        end_col == _a1_col_letters(Len(COLUMNS))
        s1  == WsUpdate(s0, row_idx, ColumnOf(end_col), UpdatedValues(u))
        ch1 == LoadCache(CacheClear(ch0), TRUE, s1)
    IN /\ pc[c] = "idle"
       /\ Len(df0) # 0
       /\ sid \in EditIds(df0)
       /\ wsExists' = TRUE
       /\ ev' = [ev EXCEPT ![c] = [op |-> "edit", id |-> sid, date |-> d, form |-> f]]
       /\ IF row_idx = None
          THEN /\ sheet' = s0
               /\ cache' = ch0
               /\ df' = [df EXCEPT ![c] = df0]
               /\ ui' = [ui EXCEPT ![c] = "not_found"]
          ELSE /\ sheet' = s1
               /\ df' = [df EXCEPT ![c] = ch1.df]
               /\ cache' = ch1
               /\ ui' = [ui EXCEPT ![c] = "updated"]
       /\ UNCHANGED stepVars

Next ==
    \/ Tick
    \/ View(1)
    \/ \E d \in Dates, f \in Forms : Create(1, d, f)
    \/ \E idx \in 1..MaxRows, today \in Dates : Duplicate(1, idx, today)
    \/ \E sid \in 1..(MaxRows + 1), d \in Dates, f \in Forms : Edit(1, sid, d, f)

Spec == Init /\ [][Next]_vars

(******************** remote calls that may fail ***************************)
\* form_seance submitted, and save_df raises at its write number n + 1: the
\* exception ends the script run before load_df.clear() and before line 226.
CreateFail(c, d, f, n) ==
    LET ch0 == LoadCache(cache, wsExists, sheet)
        s0  == LoadSheet(cache, wsExists, sheet)
        df0 == ch0.df
        df1 == Append(df0, NewRow(next_id(df0), d, f))
    IN /\ pc[c] = "idle"
       /\ Len(df0) < MaxRows
       /\ IdsNumeric(df0)
       /\ sheet' = SavePartial(s0, df1, n)
       /\ wsExists' = TRUE
       /\ df' = [df EXCEPT ![c] = df1]
       /\ cache' = ch0
       /\ ui' = [ui EXCEPT ![c] = "remote_error"]
       /\ ev' = [ev EXCEPT ![c] = [op |-> "create", date |-> d, form |-> f]]
       /\ UNCHANGED stepVars

\* dup_btn pressed, and save_df raises at its write number n + 1.
DuplicateFail(c, idx, today, n) ==
    LET ch0 == LoadCache(cache, wsExists, sheet)
        s0  == LoadSheet(cache, wsExists, sheet)
        df0 == ch0.df
        df1 == Append(df0, DupRow(df0[idx], next_id(df0), today))
    IN /\ pc[c] = "idle"
       /\ Len(df0) # 0
       /\ idx \in Choices(df0)
       /\ Len(df0) < MaxRows
       /\ IdsNumeric(df0)
       /\ sheet' = SavePartial(s0, df1, n)
       /\ wsExists' = TRUE
       /\ df' = [df EXCEPT ![c] = df1]
       /\ cache' = ch0
       /\ ui' = [ui EXCEPT ![c] = "remote_error"]
       /\ ev' = [ev EXCEPT ![c] = [op |-> "duplicate", idx |-> idx, date |-> today]]
       /\ UNCHANGED stepVars

\* edit_form submitted, and ws.col_values or ws.update raises: nothing is
\* written, load_df.clear() and st.rerun() are not reached.
EditFail(c, sid, d, f) ==
    LET ch0 == LoadCache(cache, wsExists, sheet)
        s0  == LoadSheet(cache, wsExists, sheet)
        df0 == ch0.df
    IN /\ pc[c] = "idle"
       /\ Len(df0) # 0
       /\ sid \in EditIds(df0)
       /\ sheet' = s0
       /\ wsExists' = TRUE
       /\ df' = [df EXCEPT ![c] = df0]
       /\ cache' = ch0
       /\ ui' = [ui EXCEPT ![c] = "remote_error"]
       /\ ev' = [ev EXCEPT ![c] = [op |-> "edit", id |-> sid, date |-> d, form |-> f]]
       /\ UNCHANGED stepVars

NextFail ==
    \/ Next
    \/ \E d \in Dates, f \in Forms, n \in 0..2 : CreateFail(1, d, f, n)
    \/ \E idx \in 1..MaxRows, today \in Dates, n \in 0..2 : DuplicateFail(1, idx, today, n)
    \/ \E sid \in 1..(MaxRows + 1), d \in Dates, f \in Forms : EditFail(1, sid, d, f)

SpecFail == Init /\ [][NextFail]_vars

(************************ two overlapping script runs **********************)
\* What each client submits: its own filling of the form and its own date.
FormFor(c) == CHOOSE f \in Forms : (f.duree = 60) <=> (c = 1)

DateFor(c) == IF c = 1 THEN Date(2024, 6, 30) ELSE Date(2024, 7, 1)

\* The sheet both clients have on screen: three sessions created one by one.
ConcSheet ==
    SaveSheet(<< >>, << NewRow(1, Date(2024, 7, 1), FormFor(2)),
                        NewRow(2, Date(2024, 6, 30), FormFor(1)),
                        NewRow(3, Date(2024, 7, 1), FormFor(1)) >>)

InitConc ==
    /\ wsExists = TRUE
    /\ sheet = ConcSheet
    /\ cache = NoCache
    /\ df = [c \in Clients |-> << >>]
    /\ ui = [c \in Clients |-> ""]
    /\ ev = [c \in Clients |-> [op |-> "none"]]
    /\ pc = [c \in Clients |-> "idle"]
    /\ loc = [c \in Clients |-> << >>]
    /\ sheet0 = ConcSheet

\* The script run starts and reaches its handler: the load_df() calls before
\* it (line 160 for form_seance; lines 160, 226, 250 for edit_form).
BeginRun(c, e) ==
    LET ch0 == LoadCache(cache, wsExists, sheet)
    IN /\ pc[c] = "idle"
       /\ ev' = [ev EXCEPT ![c] = e]
       /\ df' = [df EXCEPT ![c] = ch0.df]
       /\ cache' = ch0
       /\ pc' = [pc EXCEPT ![c] = "handler"]
       /\ UNCHANGED <<wsExists, sheet, ui, loc, sheet0>>

BeginCreate(c) == BeginRun(c, [op |-> "create", date |-> DateFor(c), form |-> FormFor(c)])

BeginEdit(c, sid) ==
    BeginRun(c, [op |-> "edit", id |-> sid, date |-> DateFor(c), form |-> FormFor(c)])

\* Lines 202-220 up to ws.clear(): next_id raises on ids that are not numbers.
SaveClear(c) ==
    /\ pc[c] = "handler"
    /\ ev[c].op = "create"
    /\ IF IdsNumeric(df[c])
       THEN /\ loc' = [loc EXCEPT ![c] =
                        Append(df[c], NewRow(next_id(df[c]), ev[c].date, ev[c].form))]
            /\ sheet' = WsClear(sheet)
            /\ pc' = [pc EXCEPT ![c] = "header"]
            /\ ui' = ui
       ELSE /\ ui' = [ui EXCEPT ![c] = "error"]
            /\ pc' = [pc EXCEPT ![c] = "done"]
            /\ UNCHANGED <<sheet, loc>>
    /\ UNCHANGED <<wsExists, cache, df, ev, sheet0>>

\* ws.append_row(COLUMNS), line 88
SaveHeader(c) ==
    /\ pc[c] = "header"
    /\ sheet' = WsAppendRow(sheet, COLUMNS)
    /\ pc' = [pc EXCEPT ![c] = "rows"]
    /\ UNCHANGED <<wsExists, cache, df, ui, ev, loc, sheet0>>

\* ws.append_rows(...), lines 89-94
SaveAppendRows(c) ==
    /\ pc[c] = "rows"
    /\ sheet' = WsAppendRows(sheet, SaveRows(loc[c]))
    /\ pc' = [pc EXCEPT ![c] = "saved"]
    /\ UNCHANGED <<wsExists, cache, df, ui, ev, loc, sheet0>>

\* load_df.clear(), line 95, and st.success, line 221
SaveCacheClear(c) ==
    /\ pc[c] = "saved"
    /\ cache' = CacheClear(cache)
    /\ ui' = [ui EXCEPT ![c] = "created"]
    /\ pc' = [pc EXCEPT ![c] = "reload"]
    /\ UNCHANGED <<wsExists, sheet, df, ev, loc, sheet0>>

\* Lines 251-255 and 289-304, then lines 371-394: an empty frame stops the
\* script, an id the selectbox no longer offers is not edited; otherwise the
\* row is looked up in the sheet.
EditFind(c) ==
    LET row_idx == _find_row_by_id(sheet, ev[c].id)
        u == Updated(ev[c].id, EditRow(df[c], ev[c].id), ev[c].date, ev[c].form)
    IN /\ pc[c] = "handler"
       /\ ev[c].op = "edit"
       /\ IF Len(df[c]) = 0 \/ ev[c].id \notin EditIds(df[c])
          THEN /\ pc' = [pc EXCEPT ![c] = "done"]
               /\ UNCHANGED <<ui, loc>>
          ELSE IF row_idx = None
          THEN /\ ui' = [ui EXCEPT ![c] = "not_found"]
               /\ pc' = [pc EXCEPT ![c] = "done"]
               /\ loc' = loc
          ELSE /\ loc' = [loc EXCEPT ![c] = [row_idx |-> row_idx, values |-> UpdatedValues(u)]]
               /\ pc' = [pc EXCEPT ![c] = "write"]
               /\ ui' = ui
       /\ UNCHANGED <<wsExists, sheet, cache, df, ev, sheet0>>

\* Lines 396-398: ws.update of the row found
EditWrite(c) ==
    /\ pc[c] = "write"
    /\ sheet' = WsUpdate(sheet, loc[c].row_idx, ColumnOf(_a1_col_letters(Len(COLUMNS))),
                         loc[c].values)
    /\ pc' = [pc EXCEPT ![c] = "written"]
    /\ UNCHANGED <<wsExists, cache, df, ui, ev, loc, sheet0>>

\* load_df.clear(), st.success and st.rerun(), lines 399-401
EditCacheClear(c) ==
    /\ pc[c] = "written"
    /\ cache' = CacheClear(cache)
    /\ ui' = [ui EXCEPT ![c] = "updated"]
    /\ pc' = [pc EXCEPT ![c] = "reload"]
    /\ UNCHANGED <<wsExists, sheet, df, ev, loc, sheet0>>

\* The load_df() calls after the handler (lines 226 and 250, or the rerun's).
Reload(c) ==
    LET ch0 == LoadCache(cache, wsExists, sheet)
    IN /\ pc[c] = "reload"
       /\ df' = [df EXCEPT ![c] = ch0.df]
       /\ cache' = ch0
       /\ pc' = [pc EXCEPT ![c] = "done"]
       /\ UNCHANGED <<wsExists, sheet, ui, ev, loc, sheet0>>

NextConc ==
    \E c \in Clients :
        \/ BeginCreate(c)
        \/ \E sid \in 1..3 : BeginEdit(c, sid)
        \/ SaveClear(c)
        \/ SaveHeader(c)
        \/ SaveAppendRows(c)
        \/ SaveCacheClear(c)
        \/ EditFind(c)
        \/ EditWrite(c)
        \/ EditCacheClear(c)
        \/ Reload(c)

SpecConc == InitConc /\ [][NextConc]_vars

(***************** two server processes on the same table ******************)
\* st.cache_data memoises in the memory of the process that runs the script:
\* client c is served by process c, and cache[c] is that process's entry.
InitProc ==
    /\ wsExists = FALSE
    /\ sheet = << >>
    /\ cache = [c \in Clients |-> NoCache]
    /\ df = [c \in Clients |-> << >>]
    /\ ui = [c \in Clients |-> ""]
    /\ ev = [c \in Clients |-> [op |-> "none"]]
    /\ pc = [c \in Clients |-> "idle"]
    /\ loc = [c \in Clients |-> << >>]
    /\ sheet0 = << >>

\* TickStep seconds pass in every process.
ProcTick ==
    /\ \E c \in Clients : CacheValid(cache[c])
    /\ cache' = [c \in Clients |->
                    IF CacheValid(cache[c])
                    THEN [cache[c] EXCEPT !.age =
                            IF @ + TickStep < CacheTTL THEN @ + TickStep ELSE CacheTTL]
                    ELSE cache[c]]
    /\ UNCHANGED <<wsExists, sheet, df, ui, ev, stepVars>>

\* A script run without a submitted form: lines 160, 226, 250.
ProcView(c) ==
    LET ch0 == LoadCache(cache[c], wsExists, sheet)
    IN /\ pc[c] = "idle"
       /\ df' = [df EXCEPT ![c] = ch0.df]
       /\ cache' = [cache EXCEPT ![c] = ch0]
       /\ sheet' = LoadSheet(cache[c], wsExists, sheet)
       /\ wsExists' = (wsExists \/ ~CacheValid(cache[c]))
       /\ ui' = [ui EXCEPT ![c] = ""]
       /\ ev' = [ev EXCEPT ![c] = [op |-> "view"]]
       /\ UNCHANGED stepVars

\* form_seance submitted: line 160, lines 201-221, then lines 226 and 250.
\* save_df opens the worksheet (line 86), which exists once any process has
\* loaded.
ProcCreate(c, d, f) ==
    LET ch0 == LoadCache(cache[c], wsExists, sheet)
        s0  == LoadSheet(cache[c], wsExists, sheet)
        df0 == ch0.df
        df1 == Append(df0, NewRow(next_id(df0), d, f))
        s1  == SaveSheet(s0, df1)
        ch1 == LoadCache(CacheClear(ch0), TRUE, s1)
    IN /\ pc[c] = "idle"
       /\ Len(df0) < MaxRows
       /\ IdsNumeric(df0)
       /\ sheet' = s1
       /\ wsExists' = TRUE
       /\ df' = [df EXCEPT ![c] = ch1.df]
       /\ cache' = [cache EXCEPT ![c] = ch1]
       /\ ui' = [ui EXCEPT ![c] = "created"]
       /\ ev' = [ev EXCEPT ![c] = [op |-> "create", date |-> d, form |-> f]]
       /\ UNCHANGED stepVars

NextProc ==
    \/ ProcTick
    \/ \E c \in Clients : ProcView(c)
    \/ \E c \in Clients : ProcCreate(c, DateFor(c), FormFor(c))

SpecProc == InitProc /\ [][NextProc]_vars

(************************* one call of a helper ****************************)
\* A worksheet row with the given id and date cells.
CallRow(idText, dateText) ==
    [SaveRows(<<NewRow(1, Date(2024, 7, 1), FormFor(1))>>)[1]
        EXCEPT ![1] = idText, ![2] = dateText]

SeqsUpTo(S, n) == UNION {[1..k -> S] : k \in 0..n}

\* Sheets searched by id: up to MaxRows rows below row 1, which is the header
\* or (after interleaved saves) a data row.
FindSheets ==
    {<< >>} \cup
    {<<top>> \o rows :
        top \in {COLUMNS, CallRow("1", "2024-07-01")},
        rows \in SeqsUpTo({CallRow(i, "2024-07-01") : i \in {"1", "2", "3"}}, MaxRows)}

\* Sheets loaded and saved back: the header and up to MaxRows sessions whose
\* date cell is a date, is empty, or is text that is no date (the worksheet
\* is also edited by hand).
DateCells == {"2024-06-30", "", "bientot"}

LoadSaveSheets ==
    {<<COLUMNS>> \o [i \in 1..Len(ds) |-> CallRow(ToString(i), ds[i])] :
        ds \in SeqsUpTo(DateCells, MaxRows)}

\* Frames whose ids come in any order.
IdFrames ==
    {[i \in 1..Len(ids) |-> NewRow(ids[i], Date(2024, 7, 1), FormFor(1))] :
        ids \in SeqsUpTo(1..5, MaxRows)}

Calls ==
    {[op |-> "find", sheet |-> s, id |-> sid] : s \in FindSheets, sid \in 1..3}
    \cup {[op |-> "next_id", frame |-> f] : f \in IdFrames}
    \cup {[op |-> "to_season", date |-> d] : d \in Calendar}
    \cup {[op |-> "col_letters", n |-> n] : n \in 1..703}
    \cup {[op |-> "load_save", sheet |-> s] : s \in LoadSaveSheets}

InitCalls ==
    \E call \in Calls :
        /\ ev = [c \in Clients |-> IF c = 1 THEN call ELSE [op |-> "none"]]
        /\ sheet = (IF call.op \in {"find", "load_save"} THEN call.sheet ELSE << >>)
        /\ sheet0 = sheet
        /\ wsExists = (sheet # << >>)
        /\ cache = NoCache
        /\ df = [c \in Clients |-> IF c = 1 /\ call.op = "next_id" THEN call.frame ELSE << >>]
        /\ ui = [c \in Clients |-> ""]
        /\ pc = [c \in Clients |-> "idle"]
        /\ loc = [c \in Clients |-> << >>]

\* The call returns res.
Return(res) ==
    /\ pc[1] = "idle"
    /\ loc' = [loc EXCEPT ![1] = [res |-> res]]
    /\ pc' = [pc EXCEPT ![1] = "done"]
    /\ UNCHANGED <<wsExists, sheet, cache, df, ui, ev, sheet0>>

CallFind == ev[1].op = "find" /\ Return(_find_row_by_id(sheet, ev[1].id))

CallNextId == ev[1].op = "next_id" /\ Return(next_id(df[1]))

CallToSeason == ev[1].op = "to_season" /\ Return(to_season(ev[1].date))

CallColLetters == ev[1].op = "col_letters" /\ Return(_a1_col_letters(ev[1].n))

\* df = load_df() with no valid cache entry, then save_df(df)
CallLoadSave ==
    LET ch0 == LoadCache(NoCache, wsExists, sheet)
    IN /\ ev[1].op = "load_save"
       /\ pc[1] = "idle"
       /\ df' = [df EXCEPT ![1] = ch0.df]
       /\ sheet' = SaveSheet(EnsureSheet(wsExists, sheet), ch0.df)
       /\ cache' = CacheClear(ch0)
       /\ pc' = [pc EXCEPT ![1] = "done"]
       /\ UNCHANGED <<wsExists, ui, ev, loc, sheet0>>

NextCalls ==
    \/ CallFind
    \/ CallNextId
    \/ CallToSeason
    \/ CallColLetters
    \/ CallLoadSave

SpecCalls == InitCalls /\ [][NextCalls]_vars

(******************************* claims ************************************)
\* The data rows of a worksheet, and the ids their first cells read as.
DataRows(s) == 2..Len(s)

IdOf(s, i) == IntOfText[s[i][1]]

MaxId(s) == IF DataRows(s) = {} THEN 0 ELSE SetMax({IdOf(s, i) : i \in DataRows(s)})

UniqueIds(s) == \A i, j \in DataRows(s) : i # j => s[i][1] # s[j][1]

\* A step of Spec that appends a record: a create or a duplicate always adds a row.
AppendStep == ev'[1].op \in {"create", "duplicate"} /\ sheet' # sheet

\* The record a load returns for a session created from date d and form f.
RecordOf(id, d, f) ==
    [id |-> Num(id), date |-> Ts(d), saison |-> Str(to_season(d)),
     public |-> Str(f.public), objectif |-> Str(Join(f.obj)), tags |-> Str(f.tags),
     duree_min |-> Num(f.duree), echauffement |-> Str(f.ech), corps |-> Str(f.corps),
     retour |-> Str(f.retour), materiel |-> Str(f.materiel), bilan |-> Str(f.bilan),
     effectif |-> Num(f.effectif), rpe |-> Num(f.rpe), auteur |-> Str(f.auteur)]

\* The worksheet row of that record.
RowOf(id, d, f) ==
    << ToString(id), Strftime(d), to_season(d), f.public, Join(f.obj), f.tags,
       ToString(f.duree), f.ech, f.corps, f.retour, f.materiel, f.bilan,
       ToString(f.effectif), ToString(f.rpe), f.auteur >>

\* C1: under one client's loads, creates, duplicates and updates from an empty
\* sheet, no two data rows carry the same id, and every created or duplicated
\* record is appended with id = (maximum id before the operation) + 1, or 1
\* when the sheet had no data row.
C1_IdentifierUniqueness ==
    [][/\ UniqueIds(sheet')
       /\ AppendStep =>
            /\ Len(sheet') = (IF Len(sheet) = 0 THEN 1 ELSE Len(sheet)) + 1
            /\ IdOf(sheet', Len(sheet')) = MaxId(sheet) + 1]_vars

C1_Witness ==
    /\ ev[1].op = "duplicate"
    /\ Len(sheet) = MaxRows + 1
    /\ sheet[Len(sheet)][1] = ToString(MaxRows)

\* C2: once the worksheet exists, after every operation row 1 is exactly
\* COLUMNS, also with zero data rows, and no other row is a copy of the header.
C2_HeaderInvariant ==
    wsExists =>
        /\ Len(sheet) >= 1
        /\ sheet[1] = COLUMNS
        /\ \A i \in DataRows(sheet) : sheet[i] # COLUMNS

C2_Witness == ev[1].op = "create" /\ Len(sheet) = 3 /\ sheet[1] = COLUMNS

\* C3: every data row satisfies saison = to_season(date); an update writes the
\* season of the new date.
SeasonConsistent(s) ==
    \A i \in DataRows(s) :
        /\ s[i][2] \in DateTexts
        /\ s[i][3] = to_season(DateOfText[s[i][2]])

C3_SeasonConsistency == SeasonConsistent(sheet)

C3_Witness ==
    /\ ui[1] = "updated"
    /\ \E i, j \in DataRows(sheet) :
        /\ sheet[i][1] = ToString(ev[1].id)
        /\ sheet[i][3] = "2024-2025"
        /\ sheet[j][3] = "2023-2024"

\* C4: an update of an id the sheet holds overwrites the row holding that id
\* with the new values and nothing else: the header and every other row, the
\* number of rows and the id cell of the row are unchanged.
C4_UpdateOneRow ==
    [][ui'[1] = "updated" =>
        \E i \in DataRows(sheet) :
            /\ sheet[i][1] = ToString(ev'[1].id)
            /\ \A j \in DataRows(sheet) : j < i => sheet[j][1] # sheet[i][1]
            /\ Len(sheet') = Len(sheet)
            /\ \A j \in 1..Len(sheet) : j # i => sheet'[j] = sheet[j]
            /\ sheet'[i] = RowOf(ev'[1].id, ev'[1].date, ev'[1].form)
            /\ sheet'[i][1] = sheet[i][1]]_vars

C4_Witness ==
    /\ ui[1] = "updated"
    /\ Len(sheet) = 4
    /\ sheet[3] = RowOf(2, ev[1].date, ev[1].form)
    /\ sheet[2] # RowOf(1, ev[1].date, ev[1].form)

\* C6: the memoised load is cleared by every save and every successful
\* update, so the load that follows a client's own write returns the sheet's
\* content with that write, and no live cache entry differs from the sheet.
C6_ReadYourWrites ==
    /\ ui[1] \in {"created", "duplicated", "updated"} => df[1] = ReadFrame(sheet)
    /\ CacheValid(cache) => cache.df = ReadFrame(sheet)

C6_Witness ==
    /\ ui[1] = "updated"
    /\ Len(df[1]) = 2
    /\ df[1][2] = RecordOf(2, ev[1].date, ev[1].form)

\* C7: if a load returns R, then after create(x) the next load returns R in
\* the same order followed by one record with x's fields, id = max id of R + 1
\* (1 if R is empty) and season to_season(x.date).
FrameMaxId(f) == IF Len(f) = 0 THEN 0 ELSE SetMax({f[i]["id"].int : i \in 1..Len(f)})

C7_CreateRoundTrip ==
    [][(ev'[1].op = "create" /\ sheet' # sheet) =>
        /\ Len(df'[1]) = Len(df[1]) + 1
        /\ \A i \in 1..Len(df[1]) : df'[1][i] = df[1][i]
        /\ df'[1][Len(df'[1])] =
              RecordOf(FrameMaxId(df[1]) + 1, ev'[1].date, ev'[1].form)]_vars

C7_Witness ==
    /\ ev[1].op = "create"
    /\ Len(df[1]) = 3
    /\ df[1][1] # df[1][2]
    /\ df[1][3] = RecordOf(3, ev[1].date, ev[1].form)

\* Some data row of worksheet s holds id.
Holds(s, id) == \E i \in DataRows(s) : s[i][1] = ToString(id)

\* update_fields is called: the edit handler reaches line 391.
EditCalled(c) ==
    /\ pc[c] = "handler"
    /\ ev[c].op = "edit"
    /\ Len(df[c]) > 0
    /\ ev[c].id \in EditIds(df[c])
    /\ pc'[c] # pc[c]

\* C5: an update of an id no data row holds ends in the not-found outcome and
\* writes nothing, and the client's run is over; the not-found outcome is only
\* given for an id no data row holds.
C5_UpdateNotFound ==
    [][\A c \in Clients :
        /\ (EditCalled(c) /\ ~Holds(sheet, ev[c].id))
              => (ui'[c] = "not_found" /\ sheet' = sheet /\ pc'[c] = "done")
        /\ (ui'[c] = "not_found" /\ ui[c] # "not_found")
              => (EditCalled(c) /\ ~Holds(sheet, ev[c].id) /\ sheet' = sheet)]_vars

C5_Witness ==
    \E c \in Clients :
        /\ ui[c] = "not_found"
        /\ pc[c] = "done"
        /\ ev[c].op = "edit"
        /\ ev[c].id \in EditIds(df[c])
        /\ ~Holds(sheet, ev[c].id)

\* C8: a save or a row update that a failing remote call aborts leaves the
\* sheet (its header and all its data rows) as it was before the operation
\* started.
C8_NoPartialWrite ==
    [][(wsExists /\ Len(sheet) >= 2 /\ ui'[1] = "remote_error") => sheet' = sheet]_vars

\* The save of client c has written its rows.
SaveDone(c) == ev[c].op = "create" /\ (pc[c] = "saved" \/ ui[c] = "created")

\* C9: once two overlapping saves have both finished, the sheet is the header
\* followed by the rows of one of the two saves.
C9_LastRewriteWins ==
    (\A c \in Clients : SaveDone(c))
        => \E c \in Clients : sheet = <<COLUMNS>> \o SaveRows(loc[c])

\* The row update of client c has been written.
EditDone(c) == ev[c].op = "edit" /\ (pc[c] = "written" \/ ui[c] = "updated")

\* C10: once two overlapping updates of different ids, both held by the sheet,
\* have been written, each of the two rows holds the values its client gave,
\* and the header and every other row are as they were.
C10_DisjointUpdates ==
    ((\A c \in Clients : EditDone(c) /\ Holds(sheet0, ev[c].id)) /\ ev[1].id # ev[2].id)
        => /\ Len(sheet) = Len(sheet0)
           /\ sheet[1] = sheet0[1]
           /\ \A i \in DataRows(sheet0) :
                 /\ \A c \in Clients :
                       sheet0[i][1] = ToString(ev[c].id)
                           => sheet[i] = RowOf(ev[c].id, ev[c].date, ev[c].form)
                 /\ (\A c \in Clients : sheet0[i][1] # ToString(ev[c].id))
                       => sheet[i] = sheet0[i]

C10_Witness ==
    /\ \A c \in Clients : EditDone(c) /\ pc[c] = "done" /\ Holds(sheet0, ev[c].id)
    /\ ev[1].id # ev[2].id
    /\ \A c \in Clients : \E i \in DataRows(sheet0) :
          sheet0[i][1] = ToString(ev[c].id) /\ sheet[i] # sheet0[i]
    /\ \E i \in DataRows(sheet0) : sheet[i] = sheet0[i]

\* The table before any session is stored: no worksheet yet, or the header only.
DataFree(s) == s = << >> \/ s = <<COLUMNS>>

\* The step is a script run of client c that only loads.
ViewStep(c) ==
    /\ ev'[c].op = "view"
    /\ \A b \in Clients \ {c} : ev'[b] = ev[b] /\ df'[b] = df[b] /\ cache'[b] = cache[b]

\* C11: on a table that starts without worksheet, every load before the first
\* create leaves the worksheet with exactly the header row and returns an empty
\* frame, however many loads came before it.
C11_IdempotentCreation ==
    [][\A c \in Clients :
        (ViewStep(c) /\ DataFree(sheet))
            => (wsExists' /\ sheet' = <<COLUMNS>> /\ df'[c] = << >>)]_vars

\* Both processes have run the get-or-create step on the fresh table.
C11_Witness ==
    /\ \A c \in Clients : ev[c].op = "view" /\ cache[c].set /\ df[c] = << >>
    /\ wsExists
    /\ sheet = <<COLUMNS>>

\* The id texts of the data rows.
IdTexts(s) == {s[i][1] : i \in DataRows(s)}

\* The number of data rows.
NumDataRows(s) == IF Len(s) = 0 THEN 0 ELSE Len(s) - 1

\* C12: no step of a single client's script runs removes an id from the sheet
\* or lowers the number of data rows.
C12_NoRecordDeleted ==
    [][IdTexts(sheet) \subseteq IdTexts(sheet') /\ NumDataRows(sheet') >= NumDataRows(sheet)]_vars

C12_Witness ==
    /\ ev[1].op = "edit"
    /\ ui[1] = "updated"
    /\ NumDataRows(sheet) = 3
    /\ IdTexts(sheet) = {"1", "2", "3"}

\* The helper op has been called and has returned.
Returned(op) == ev[1].op = op /\ pc[1] = "done"

\* C13: _find_row_by_id returns the 1-based index of the first row below row 1
\* whose id cell is the searched id as text, and not-found when there is none;
\* it never returns 1, whatever row 1 holds; on a header and three data rows
\* with the target in the second data row it returns 3.
C13_FindRowIndex ==
    Returned("find") =>
        LET r == loc[1].res
            want == ToString(ev[1].id)
        IN /\ r # 1
           /\ (r = None) <=> (\A i \in DataRows(sheet) : sheet[i][1] # want)
           /\ r # None =>
                 /\ r \in DataRows(sheet)
                 /\ sheet[r][1] = want
                 /\ \A j \in 2..(r - 1) : sheet[j][1] # want
           /\ (Len(sheet) = 4 /\ sheet[2][1] # want /\ sheet[3][1] = want) => r = 3

C13_Witness ==
    /\ Returned("find")
    /\ Len(sheet) = 4
    /\ sheet[1][1] = ToString(ev[1].id)
    /\ sheet[2][1] # ToString(ev[1].id)
    /\ sheet[3][1] = ToString(ev[1].id)
    /\ sheet[4][1] = ToString(ev[1].id)
    /\ loc[1].res = 3

\* C14: next_id is 1 on an empty frame and otherwise one more than the largest
\* id, in whatever order the ids come (1, 5, 3 give 6), so it exceeds every id
\* of the frame.
C14_NextId ==
    Returned("next_id") =>
        LET f == df[1]
            r == loc[1].res
        IN /\ Len(f) = 0 => r = 1
           /\ Len(f) # 0 =>
                 /\ \E i \in 1..Len(f) : r = f[i]["id"].int + 1
                 /\ \A i \in 1..Len(f) : r > f[i]["id"].int
           /\ (Len(f) = 3 /\ f[1]["id"] = Num(1) /\ f[2]["id"] = Num(5) /\ f[3]["id"] = Num(3))
                 => r = 6

C14_Witness ==
    /\ Returned("next_id")
    /\ Len(df[1]) = 3
    /\ df[1][1]["id"] = Num(1)
    /\ df[1][2]["id"] = Num(5)
    /\ df[1][3]["id"] = Num(3)
    /\ loc[1].res = 6

\* C15: to_season gives "(year-1)-(year)" for the months 1..6 and
\* "(year)-(year+1)" for the months 7..12, for every day; 2024-06-30 gives
\* 2023-2024 and 2024-07-01 gives 2024-2025.
C15_ToSeason ==
    Returned("to_season") =>
        LET d == ev[1].date
            r == loc[1].res
        IN /\ d.month \in 1..6 => r = ToString(d.year - 1) \o "-" \o ToString(d.year)
           /\ d.month \in 7..12 => r = ToString(d.year) \o "-" \o ToString(d.year + 1)
           /\ d = Date(2024, 6, 30) => r = "2023-2024"
           /\ d = Date(2024, 7, 1) => r = "2024-2025"

C15_Witness ==
    /\ Returned("to_season")
    /\ ev[1].date = Date(2024, 7, 1)
    /\ loc[1].res = "2024-2025"

\* The text of the bijective base-26 numeral with digits a, b, c (A = 1 .. Z = 26),
\* leading digits 0 being absent.
Numeral(a, b, c) ==
    (IF a = 0 THEN "" ELSE Letters[a]) \o (IF b = 0 THEN "" ELSE Letters[b]) \o Letters[c]

\* C16: for every n in 1..703 the column letters are the bijective base-26
\* numeral of n, distinct n give distinct letters, and 1, 26, 27, 52, 702, 703
\* and 15 give A, Z, AA, AZ, ZZ, AAA and O.
C16_ColumnLetters ==
    Returned("col_letters") =>
        LET n == ev[1].n
            r == loc[1].res
        IN /\ \E a \in 0..1, b \in 0..26, c \in 1..26 :
                 /\ a # 0 => b # 0
                 /\ (a * 26 * 26) + (b * 26) + c = n
                 /\ r = Numeral(a, b, c)
           /\ \A m \in (1..703) \ {n} : _a1_col_letters(m) # r
           /\ n = 1 => r = "A"
           /\ n = 26 => r = "Z"
           /\ n = 27 => r = "AA"
           /\ n = 52 => r = "AZ"
           /\ n = 702 => r = "ZZ"
           /\ n = 703 => r = "AAA"
           /\ n = Len(COLUMNS) => r = "O"

C16_Witness ==
    /\ Returned("col_letters")
    /\ ev[1].n = 702
    /\ loc[1].res = "ZZ"

\* C17: saving the frame just loaded leaves a sheet with the header in row 1
\* as it was, also when a date cell is empty or holds text that is no date.
C17_LoadSaveIdentity == (Returned("load_save") /\ sheet0[1] = COLUMNS) => sheet = sheet0

\* Row i of sheet s holds a session of client c (in SpecProc each client
\* submits its own filling of the form; column 4 is "public").
RowBy(s, i, c) == s[i][4] = FormFor(c).public

\* The step is a create of client a served from its still valid cache entry.
CachedCreateBy(a) ==
    /\ CacheValid(cache[a])
    /\ sheet' # sheet
    /\ ui'[a] = "created"
    /\ Len(sheet') >= 2
    /\ RowBy(sheet', Len(sheet'), a)

\* C18: a create of client A within the window of its cached load keeps every
\* record another client B has created in the meantime, and gives A's record
\* an id no record of B carries.
C18_CreateKeepsOthers ==
    [][\A a \in Clients : \A b \in Clients \ {a} :
        CachedCreateBy(a) =>
            \A i \in DataRows(sheet) :
                RowBy(sheet, i, b) =>
                    /\ \E j \in DataRows(sheet') : sheet'[j] = sheet[i]
                    /\ sheet'[Len(sheet')][1] # sheet[i][1]]_vars

====
